---- MODULE Spec2Model ----
(***************************************************************************)
(* A model of package decimal (src/decimal.go): arbitrary-precision        *)
(* fixed-point decimals, a *big.Int coefficient with an int32 exponent.    *)
(*                                                                         *)
(* The Go heap is modelled explicitly: `ints` holds the big.Int cells and  *)
(* `decs` the Decimal structs, both addressed by their index, so           *)
(* that the in-place big.Int updates of Round and RoundBank, and the       *)
(* sharing of coefficient storage, are visible.  Every function of the     *)
(* package is an operator from a machine m = [ints, decs, ok] to a record  *)
(* [m |-> the machine after the call, r |-> the value returned].           *)
(*                                                                         *)
(* A big.Int is unbounded.  A cell holds either an exact integer of        *)
(* magnitude at most MaxExact, or Huge(s): some integer of sign s and      *)
(* magnitude above MaxExact, which is all the model keeps of 10^diff for   *)
(* the exponent differences near 2^32 that int32 exponents allow.  An      *)
(* operation whose result the two forms cannot determine clears m.ok, and  *)
(* a call that clears it is outside the model's bounds.                    *)
(***************************************************************************)
EXTENDS Integers, Sequences, FiniteSets

VARIABLES ints, decs, d, d2, from, last

vars == <<ints, decs, d, d2, from, last>>

(***************************************************************************)
(* Bounds of the model.                                                    *)
(***************************************************************************)
MaxExact == 999999999
MaxCoef == 10
MaxCoef2 == 1
MaxShift == 2
MaxTail == 5
MaxNegExp == 2
MaxPosExp == 1
MaxNegPlaces == 1
MaxPlaces == 2

(***************************************************************************)
(* int32: the exponent type (src/decimal.go:20).                           *)
(***************************************************************************)
MaxInt32 == 2147483647
MinInt32 == -MaxInt32 - 1

\* -x, x - 1 and x + 1 in int32: Go's signed arithmetic wraps around.
Neg32(x) == IF x = MinInt32 THEN MinInt32 ELSE -x
Dec32(x) == IF x = MinInt32 THEN MaxInt32 ELSE x - 1
Inc32(x) == IF x = MaxInt32 THEN MinInt32 ELSE x + 1

\* min returning the larger of the two.
larger(x, y) == IF x >= y THEN x ELSE y

min(x, y) == IF x >= y THEN y ELSE x

(***************************************************************************)
(* big.Int values.                                                         *)
(***************************************************************************)
Exact(n) == [inf |-> 0, n |-> n]
Huge(s) == [inf |-> s, n |-> 0]
Beyond == [inf |-> 2, n |-> 0]

AbsInt(n) == IF n < 0 THEN -n ELSE n
SgnInt(n) == IF n < 0 THEN -1 ELSE IF n > 0 THEN 1 ELSE 0

\* The value n, an integer within twice MaxExact, as a big.Int value.
Norm(n) ==
    IF n > MaxExact THEN Huge(1)
    ELSE IF n < -MaxExact THEN Huge(-1)
    ELSE Exact(n)

SignV(x) == IF x.inf # 0 THEN x.inf ELSE SgnInt(x.n)

AddV(x, y) ==
    IF x.inf = 2 \/ y.inf = 2 THEN Beyond
    ELSE IF x.inf = 0 /\ y.inf = 0 THEN Norm(x.n + y.n)
    ELSE IF x.inf # 0 /\ SignV(y) \in {0, x.inf} THEN Huge(x.inf)
    ELSE IF y.inf # 0 /\ SignV(x) \in {0, y.inf} THEN Huge(y.inf)
    ELSE Beyond

NegV(x) == IF x.inf = 2 THEN Beyond ELSE IF x.inf # 0 THEN Huge(-x.inf) ELSE Exact(-x.n)

SubV(x, y) == AddV(x, NegV(y))

MulV(x, y) ==
    IF x.inf = 2 \/ y.inf = 2 THEN Beyond
    ELSE IF SignV(x) = 0 \/ SignV(y) = 0 THEN Exact(0)
    ELSE IF x.inf # 0 \/ y.inf # 0 THEN Huge(SignV(x) * SignV(y))
    ELSE IF AbsInt(x.n) > MaxExact \div AbsInt(y.n) THEN Huge(SignV(x) * SignV(y))
    ELSE Exact(x.n * y.n)

\* Quo: the quotient truncated toward zero (a zero divisor panics in Go; the
\* package only divides by powers of ten).
QuoV(x, y) ==
    IF x.inf = 2 \/ y.inf = 2 \/ SignV(y) = 0 THEN Beyond
    ELSE IF x.inf # 0 THEN Beyond
    ELSE IF y.inf # 0 THEN Exact(0)
    ELSE Exact(SgnInt(x.n) * SgnInt(y.n) * (AbsInt(x.n) \div AbsInt(y.n)))

\* DivMod: Euclidean division, the modulus in 0 .. |y| - 1.
DivV(x, y) ==
    IF x.inf # 0 \/ y.inf # 0 \/ SignV(y) = 0 THEN Beyond
    ELSE IF y.n > 0 THEN Exact(x.n \div y.n)
    ELSE Exact(-(x.n \div (-y.n)))

ModV(x, y) ==
    IF x.inf # 0 \/ y.inf # 0 \/ SignV(y) = 0 THEN Beyond
    ELSE Exact(x.n % AbsInt(y.n))

AbsV(x) == IF x.inf = 2 THEN Beyond ELSE IF x.inf # 0 THEN Huge(1) ELSE Exact(AbsInt(x.n))

\* Cmp: -1, 0 or +1; 2 when the two forms cannot tell.
CmpV(x, y) ==
    IF x.inf = 2 \/ y.inf = 2 THEN 2
    ELSE IF x.inf = 0 /\ y.inf = 0 THEN SgnInt(x.n - y.n)
    ELSE IF x.inf = 0 THEN -y.inf
    ELSE IF y.inf = 0 THEN x.inf
    ELSE IF x.inf # y.inf THEN x.inf
    ELSE 2

\* x^k for an exact base of at least 2, acc the power reached so far; the
\* recursion stops at the first power above MaxExact.
RECURSIVE PowV(_, _, _)
PowV(x, k, acc) ==
    IF k = 0 THEN Exact(acc)
    ELSE IF acc > MaxExact \div x THEN Huge(1)
    ELSE PowV(x, k - 1, acc * x)

\* Exp(x, y, nil): x^y, and 1 when y <= 0.
ExpV(x, y) ==
    IF x.inf = 2 \/ y.inf = 2 THEN Beyond
    ELSE IF SignV(y) <= 0 THEN Exact(1)
    ELSE IF x.inf = 0 /\ x.n \in {0, 1} THEN x
    ELSE IF SignV(x) < 0 THEN Beyond
    ELSE IF x.inf # 0 \/ y.inf # 0 THEN Huge(1)
    ELSE PowV(x.n, y.n, 1)

(***************************************************************************)
(* The heap.  The package-level big.Ints are allocated first.              *)
(***************************************************************************)
zeroInt == 1
oneInt == 2
fiveInt == 3
tenInt == 4

Globals == {zeroInt, oneInt, fiveInt, tenInt}

NoDecimal == 0

\* new(big.Int) and big.NewInt: a fresh cell.
NewInt(m, v) == [m |-> [m EXCEPT !.ints = Append(@, v)], r |-> Len(m.ints) + 1]

\* &Decimal{value: value, exp: exp}: a fresh struct.
NewDecimal(m, value, exp) ==
    [m |-> [m EXCEPT !.decs = Append(@, [value |-> value, exp |-> exp])],
     r |-> Len(m.decs) + 1]

\* z's cell becomes v: every big.Int method stores its result in its receiver.
Store(m, z, v) == [m EXCEPT !.ints[z] = v, !.ok = m.ok /\ v.inf # 2]

BigSet(m, z, x) == Store(m, z, m.ints[x])
BigAdd(m, z, x, y) == Store(m, z, AddV(m.ints[x], m.ints[y]))
BigSub(m, z, x, y) == Store(m, z, SubV(m.ints[x], m.ints[y]))
BigMul(m, z, x, y) == Store(m, z, MulV(m.ints[x], m.ints[y]))
BigQuo(m, z, x, y) == Store(m, z, QuoV(m.ints[x], m.ints[y]))
BigExp(m, z, x, y) == Store(m, z, ExpV(m.ints[x], m.ints[y]))
BigAbs(m, z, x) == Store(m, z, AbsV(m.ints[x]))

\* z.DivMod(x, y, mod): z the quotient, mod the modulus.
BigDivMod(m, z, x, y, mod) ==
    LET q == DivV(m.ints[x], m.ints[y])
        r == ModV(m.ints[x], m.ints[y])
    IN  Store(Store(m, z, q), mod, r)

\* New(value, exp).
New(m, value, exp) ==
    LET v == NewInt(m, Exact(value))
    IN  NewDecimal(v.m, v.r, exp)

(***************************************************************************)
(* The functions of the package.  Each is a composition of steps, one per  *)
(* statement, over a frame f: the machine f.m, the value f.r the last      *)
(* call returned, and the function's parameters and locals.                *)
(***************************************************************************)
\* The result res of a call, taken into the frame f.
Got(f, res) == [f EXCEPT !.m = res.m, !.r = res.r]

(***************************************************************************)
(* rescale (src/decimal.go:141).                                           *)
(***************************************************************************)
\* math.Abs(float64(exp) - float64(d.exp)): every int32 and every difference
\* of two is exact in a float64.
AbsDiff(x, y) ==
    LET hi == IF x >= y THEN x ELSE y
        lo == IF x >= y THEN y ELSE x
    IN  IF lo < 0 /\ hi > MaxExact + lo THEN Huge(1) ELSE Norm(hi - lo)

\* rescaleValue without the copy: value is d.value itself.
rescaleShared(m, dp, exp) ==
    [m |-> m, r |-> 0, d |-> dp, exp |-> exp,
     diff |-> AbsDiff(exp, m.decs[dp].exp), value |-> m.decs[dp].value, expScale |-> 0]

\* diff := ...; value := new(big.Int).Set(d.value)
rescaleValue(m, dp, exp) ==
    LET a == NewInt(m, Exact(0))
    IN  [m |-> BigSet(a.m, a.r, m.decs[dp].value), r |-> 0, d |-> dp, exp |-> exp,
         diff |-> AbsDiff(exp, m.decs[dp].exp), value |-> a.r, expScale |-> 0]

\* expScale := new(big.Int).Exp(tenInt, big.NewInt(int64(diff)), nil)
rescaleExpScale(f) ==
    LET b == NewInt(f.m, Exact(0))
        c == NewInt(b.m, f.diff)
    IN  [f EXCEPT !.m = BigExp(c.m, b.r, tenInt, c.r), !.expScale = b.r]

\* if exp > d.exp { value.Quo } else if exp < d.exp { value.Mul }
rescaleScale(f) ==
    IF f.exp > f.m.decs[f.d].exp
    THEN [f EXCEPT !.m = BigQuo(f.m, f.value, f.value, f.expScale)]
    ELSE IF f.exp < f.m.decs[f.d].exp
         THEN [f EXCEPT !.m = BigMul(f.m, f.value, f.value, f.expScale)]
         ELSE f

\* return &Decimal{value: value, exp: exp}
rescaleReturn(f) == NewDecimal(f.m, f.value, f.exp)

rescale(m, dp, exp) == rescaleReturn(rescaleScale(rescaleExpScale(rescaleValue(m, dp, exp))))

(***************************************************************************)
(* Add and Sub.                                                            *)
(***************************************************************************)
\* baseScale := min(d.exp, d2.exp)
BaseScale(m, dp, dp2) ==
    [m |-> m, r |-> 0, d |-> dp, d2 |-> dp2,
     baseScale |-> min(m.decs[dp].exp, m.decs[dp2].exp), rd |-> 0]

\* rd := d.rescale(baseScale)
RescaleD(f) == Got(f, rescale(f.m, f.d, f.baseScale))

\* rd2 := d2.rescale(baseScale)
RescaleD2(f) == Got([f EXCEPT !.rd = f.r], rescale(f.m, f.d2, f.baseScale))

\* d3Value := new(big.Int).Add(rd.value, rd2.value); return &Decimal{d3Value, baseScale}
AddReturn(f) ==
    LET z == NewInt(f.m, Exact(0))
    IN  NewDecimal(BigAdd(z.m, z.r, f.m.decs[f.rd].value, f.m.decs[f.r].value),
                   z.r, f.baseScale)

Add(m, dp, dp2) == AddReturn(RescaleD2(RescaleD(BaseScale(m, dp, dp2))))

\* d3Value := new(big.Int).Sub(rd.value, rd2.value); return &Decimal{d3Value, baseScale}
SubReturn(f) ==
    LET z == NewInt(f.m, Exact(0))
    IN  NewDecimal(BigSub(z.m, z.r, f.m.decs[f.rd].value, f.m.decs[f.r].value),
                   z.r, f.baseScale)

Sub(m, dp, dp2) == SubReturn(RescaleD2(RescaleD(BaseScale(m, dp, dp2))))

(***************************************************************************)
(* Mul: the exponent sum is taken in int64.  An int64 does not fit the     *)
(* model checker's integers, so the sum is kept as 2 * q + r.              *)
(***************************************************************************)
Int64Sum(x, y) ==
    [q |-> (x \div 2) + (y \div 2) + (((x % 2) + (y % 2)) \div 2),
     r |-> ((x % 2) + (y % 2)) % 2]

\* d3Value := new(big.Int).Mul(d.value, d2.value); return &Decimal{d3Value, int32(expInt64)}
MulReturn(m, dp, dp2, expInt64) ==
    LET z == NewInt(m, Exact(0))
        res == NewDecimal(BigMul(z.m, z.r, m.decs[dp].value, m.decs[dp2].value),
                          z.r, 2 * expInt64.q + expInt64.r)
    IN  [m |-> res.m, r |-> res.r, panicked |-> FALSE]

\* MulChecked with the upper limit too low: the sum math.MaxInt32 panics.
MulCheckedBelow(m, dp, dp2, expInt64) ==
    IF expInt64.q >= MaxInt32 \div 2 \/ expInt64.q < MinInt32 \div 2
    THEN [m |-> m, r |-> NoDecimal, panicked |-> TRUE]
    ELSE MulReturn(m, dp, dp2, expInt64)

\* if expInt64 > math.MaxInt32 || expInt64 < math.MinInt32 { panic(...) }
MulChecked(m, dp, dp2, expInt64) ==
    IF expInt64.q > MaxInt32 \div 2 \/ expInt64.q < MinInt32 \div 2
    THEN [m |-> m, r |-> NoDecimal, panicked |-> TRUE]
    ELSE MulReturn(m, dp, dp2, expInt64)

Mul(m, dp, dp2) == MulChecked(m, dp, dp2, Int64Sum(m.decs[dp].exp, m.decs[dp2].exp))

Abs(m, dp) ==
    LET z == NewInt(m, Exact(0))
    IN  NewDecimal(BigAbs(z.m, z.r, m.decs[dp].value), z.r, m.decs[dp].exp)

\* x.Cmp(y) of two cells; a comparison the model cannot decide clears m.ok.
BigCmp(m, x, y) ==
    LET c == CmpV(m.ints[x], m.ints[y])
    IN  [m |-> [m EXCEPT !.ok = m.ok /\ c # 2], r |-> IF c = 2 THEN 0 ELSE c]

\* return rd.value.Cmp(rd2.value)
CmpReturn(f) == BigCmp(f.m, f.m.decs[f.rd].value, f.m.decs[f.r].value)

\* Cmp of the raw coefficients, whatever the exponents.
CmpRaw(m, dp, dp2) == BigCmp(m, m.decs[dp].value, m.decs[dp2].value)

Cmp(m, dp, dp2) ==
    IF m.decs[dp].exp = m.decs[dp2].exp
    THEN BigCmp(m, m.decs[dp].value, m.decs[dp2].value)
    ELSE CmpReturn(RescaleD2(RescaleD(BaseScale(m, dp, dp2))))

(***************************************************************************)
(* Round.  In its frame f.r is ret.                                        *)
(***************************************************************************)
\* ret := d.rescale(-places - 1)
RoundTruncate(m, dp, places) ==
    Got([m |-> m, r |-> 0, mod |-> 0], rescale(m, dp, Dec32(Neg32(places))))

\* if ret.value.Sign() < 0 { ret.value.Sub(ret.value, fiveInt) } else { ...Add... }
RoundAddHalf(f) ==
    LET value == f.m.decs[f.r].value
    IN  IF SignV(f.m.ints[value]) < 0
        THEN [f EXCEPT !.m = BigSub(f.m, value, value, fiveInt)]
        ELSE [f EXCEPT !.m = BigAdd(f.m, value, value, fiveInt)]

\* _, m := ret.value.DivMod(ret.value, tenInt, new(big.Int))
RoundDivMod(f) ==
    LET value == f.m.decs[f.r].value
        mod == NewInt(f.m, Exact(0))
    IN  [f EXCEPT !.m = BigDivMod(mod.m, value, value, tenInt, mod.r), !.mod = mod.r]

\* ret.exp++
RoundExp(f) == [f EXCEPT !.m.decs[f.r].exp = Inc32(@)]

\* RoundCeil without its correction: the floor of DivMod kept for negative values.
RoundCeilFloor(f) == [m |-> f.m, r |-> f.r]

\* if ret.value.Sign() < 0 && m.Cmp(zeroInt) != 0 { ret.value.Add(ret.value, oneInt) }
RoundCeil(f) ==
    LET value == f.m.decs[f.r].value
    IN  IF SignV(f.m.ints[value]) < 0 /\ CmpV(f.m.ints[f.mod], f.m.ints[zeroInt]) # 0
        THEN [m |-> BigAdd(f.m, value, value, oneInt), r |-> f.r]
        ELSE [m |-> f.m, r |-> f.r]

Round(m, dp, places) ==
    RoundCeil(RoundExp(RoundDivMod(RoundAddHalf(RoundTruncate(m, dp, places)))))

(***************************************************************************)
(* RoundBank.                                                              *)
(***************************************************************************)
\* round := d.Round(places)
BankRound(m, dp, places) ==
    Got([m |-> m, r |-> 0, d |-> dp, places |-> places, round |-> 0, remainder |-> 0],
        Round(m, dp, places))

\* d.Sub(round)
BankSub(f) == Got([f EXCEPT !.round = f.r], Sub(f.m, f.d, f.r))

\* remainder := d.Sub(round).Abs()
BankAbs(f) == Got(f, Abs(f.m, f.r))

\* half := New(5, -places-1)
BankHalf(f) == Got([f EXCEPT !.remainder = f.r], New(f.m, 5, Dec32(Neg32(f.places))))

\* remainder.Cmp(half)
BankCmp(f) == Got(f, Cmp(f.m, f.remainder, f.r))

\* x.Bit(0): the lowest bit of the two's complement form, 2 when the model
\* does not hold it.
BitV(x) == IF x.inf = 0 THEN x.n % 2 ELSE 2

\* BankEven without the test of Bit(0): every tie goes toward zero.
BankTowardZero(f) ==
    LET value == f.m.decs[f.round].value
    IN  IF f.r = 0
        THEN IF SignV(f.m.ints[value]) < 0
             THEN [m |-> BigAdd(f.m, value, value, oneInt), r |-> f.round]
             ELSE [m |-> BigSub(f.m, value, value, oneInt), r |-> f.round]
        ELSE [m |-> f.m, r |-> f.round]

\* if remainder.Cmp(half) == 0 && round.value.Bit(0) != 0 { toward zero }; return round
BankEven(f) ==
    LET value == f.m.decs[f.round].value
        bit == BitV(f.m.ints[value])
    IN  IF f.r = 0 /\ bit # 0
        THEN IF SignV(f.m.ints[value]) < 0
             THEN [m |-> BigAdd([f.m EXCEPT !.ok = @ /\ bit # 2], value, value, oneInt),
                   r |-> f.round]
             ELSE [m |-> BigSub([f.m EXCEPT !.ok = @ /\ bit # 2], value, value, oneInt),
                   r |-> f.round]
        ELSE [m |-> f.m, r |-> f.round]

RoundBank(m, dp, places) ==
    BankEven(BankCmp(BankHalf(BankAbs(BankSub(BankRound(m, dp, places))))))

(***************************************************************************)
(* string and StringFixedBank.  A Go string is modelled as a sequence of   *)
(* runs [ch, n], the character ch repeated n times: strings.Repeat can     *)
(* produce 2^31 - 1 zeros, which no sequence of characters can hold.       *)
(***************************************************************************)
DigitChars == <<"0", "1", "2", "3", "4", "5", "6", "7", "8", "9">>

\* The decimal digits of n >= 0, most significant first.
RECURSIVE Digits(_)
Digits(n) ==
    IF n < 10 THEN <<DigitChars[n + 1]>>
    ELSE Digits(n \div 10) \o <<DigitChars[(n % 10) + 1]>>

Chars(s) == [i \in 1..Len(s) |-> [ch |-> s[i], n |-> 1]]

Repeat(ch, count) == IF count > 0 THEN <<[ch |-> ch, n |-> count]>> ELSE <<>>

\* x.String(): the digits of x, after a "-" when x is negative.
BigString(m, x) ==
    [m |-> [m EXCEPT !.ok = @ /\ m.ints[x].inf = 0],
     r |-> IF m.ints[x].inf # 0 THEN <<>>
           ELSE IF m.ints[x].n < 0 THEN <<"-">> \o Digits(-m.ints[x].n)
           ELSE Digits(m.ints[x].n)]

\* The loop of src/decimal.go:183-189: the runs left once every trailing "0" is cut.
RECURSIVE TrimZeros(_)
TrimZeros(s) ==
    IF Len(s) > 0 /\ s[Len(s)].ch = "0" THEN TrimZeros(SubSeq(s, 1, Len(s) - 1)) ELSE s

\* The sizes of Go's int: int(d.exp) keeps d.exp in both, and -dExpInt wraps in
\* the 32-bit one when d.exp is the least int32.
IntSizes == {32, 64}

\* return d.rescale(0).value.String(), f.r being d.rescale(0)
stringInteger(f) ==
    LET str == BigString(f.m, f.m.decs[f.r].value)
    IN  [m |-> str.m, r |-> Chars(str.r), panicked |-> FALSE]

\* abs := new(big.Int).Abs(d.value); str := abs.String()
stringAbs(m, dv) ==
    LET abs == NewInt(m, Exact(0))
        str == BigString(BigAbs(abs.m, abs.r, dv.value), abs.r)
    IN  [m |-> str.m, str |-> str.r, d |-> dv]

\* intPart and fractionalPart, split at len(str) + dExpInt.  With a 32-bit int
\* and d.exp the least int32, -dExpInt is dExpInt again, len(str) > -dExpInt
\* holds and str[:len(str)+dExpInt] panics, its bound below zero.
stringSplit(f, intSize) ==
    LET split == Len(f.str) + f.d.exp
    IN  [m |-> f.m, d |-> f.d,
         panicked |-> intSize = 32 /\ f.d.exp = MinInt32,
         intPart |-> IF split > 0 THEN Chars(SubSeq(f.str, 1, split)) ELSE Chars(<<"0">>),
         fractionalPart |->
             IF split > 0 THEN Chars(SubSeq(f.str, split + 1, Len(f.str)))
             ELSE Repeat("0", -split) \o Chars(f.str)]

\* if trimTrailingZeros { ... }
stringTrim(f, trimTrailingZeros) ==
    IF trimTrailingZeros THEN [f EXCEPT !.fractionalPart = TrimZeros(@)] ELSE f

\* stringNumber putting "-" before every value that is not positive.
stringNumberMinusZero(f) ==
    LET number == IF Len(f.fractionalPart) > 0
                  THEN f.intPart \o Chars(<<".">>) \o f.fractionalPart
                  ELSE f.intPart
    IN  [m |-> f.m,
         r |-> IF f.panicked THEN <<>>
               ELSE IF SignV(f.m.ints[f.d.value]) <= 0 THEN Chars(<<"-">>) \o number
               ELSE number,
         panicked |-> f.panicked]

\* number := intPart (+ "." + fractionalPart); "-" + number for a negative d.value
stringNumber(f) ==
    LET number == IF Len(f.fractionalPart) > 0
                  THEN f.intPart \o Chars(<<".">>) \o f.fractionalPart
                  ELSE f.intPart
    IN  [m |-> f.m,
         r |-> IF f.panicked THEN <<>>
               ELSE IF SignV(f.m.ints[f.d.value]) < 0 THEN Chars(<<"-">>) \o number
               ELSE number,
         panicked |-> f.panicked]

\* The receiver d is a copy of the struct: d.rescale takes the copy's address.
stringCopy(m, dv) == Got([m |-> m, r |-> 0, d |-> dv], NewDecimal(m, dv.value, dv.exp))

stringRescale(f) == Got(f, rescale(f.m, f.r, 0))

string(m, dv, trimTrailingZeros, intSize) ==
    IF dv.exp >= 0
    THEN stringInteger(stringRescale(stringCopy(m, dv)))
    ELSE stringNumber(stringTrim(stringSplit(stringAbs(stringCopy(m, dv).m, dv), intSize),
                                 trimTrailingZeros))

\* return rounded.string(false)
StringFixedBankReturn(rounded, intSize) ==
    string(rounded.m, rounded.m.decs[rounded.r], FALSE, intSize)

StringFixedBank(m, dp, places, intSize) ==
    StringFixedBankReturn(RoundBank(m, dp, places), intSize)

(***************************************************************************)
(* The program: a caller holding two Decimals, d and d2, calls the         *)
(* package's functions on them; it then drops what the call returned, or   *)
(* keeps a returned Decimal as its d.  `last` records the call in          *)
(* progress: what was passed, the operands as they were before it, and     *)
(* what it returned.  `from` tells whether d is a result of Round.           *)
(***************************************************************************)
Exps == (-MaxNegExp..MaxPosExp) \cup {MinInt32, MaxInt32}
Places == (-MaxNegPlaces..MaxPlaces) \cup {MinInt32, MaxInt32}

\* The coefficients within MaxTail of a multiple of a power of ten, where
\* rounding turns.
RoundCoefs ==
    {a * PowV(10, k, 1).n + b :
        a \in -MaxCoef..MaxCoef, k \in 0..MaxShift, b \in -MaxTail..MaxTail}

Machine == [ints |-> ints, decs |-> decs, ok |-> TRUE]

\* What the caller sees of the Decimal at dp: its fields and its coefficient.
View(m, dp) == [value |-> m.decs[dp].value, exp |-> m.decs[dp].exp,
                coef |-> m.ints[m.decs[dp].value]]

\* s without its repetitions, and the place of x in s.
RECURSIVE Dedup(_)
Dedup(s) ==
    IF s = <<>> THEN <<>>
    ELSE LET t == Dedup(SubSeq(s, 1, Len(s) - 1))
         IN  IF \E i \in 1..Len(t) : t[i] = s[Len(s)] THEN t ELSE Append(t, s[Len(s)])

Index(s, x) == CHOOSE i \in 1..Len(s) : s[i] = x

\* The garbage collector: what the caller's pointers `roots` do not reach is
\* freed, and what they reach is moved together, sharing kept as it is.
Collect(m, roots) ==
    LET structs == Dedup(roots)
        cells == Dedup(<<zeroInt, oneInt, fiveInt, tenInt>>
                       \o [i \in 1..Len(structs) |-> m.decs[structs[i]].value])
    IN  [ints |-> [i \in 1..Len(cells) |-> m.ints[cells[i]]],
         decs |-> [i \in 1..Len(structs) |->
                      [value |-> Index(cells, m.decs[structs[i]].value),
                       exp |-> m.decs[structs[i]].exp]],
         at |-> [i \in 1..Len(roots) |-> Index(structs, roots[i])]]

NoCall == [op |-> "none", recv |-> NoDecimal, arg |-> NoDecimal, places |-> 0,
           before |-> <<>>, ret |-> NoDecimal, cmp |-> 0, str |-> <<>>,
           panicked |-> FALSE]

\* d is no result of Round.
NotRounded == [op |-> "other", places |-> 0]

InitHeap == [ints |-> <<Exact(0), Exact(1), Exact(5), Exact(10)>>, decs |-> <<>>, ok |-> TRUE]

Start(c, e, c2, e2) ==
    LET n == New(InitHeap, c, e)
        n2 == New(n.m, c2, e2)
    IN  /\ ints = n2.m.ints
        /\ decs = n2.m.decs
        /\ d = n.r
        /\ d2 = n2.r
        /\ from = NotRounded
        /\ last = NoCall

Init ==
    \E c \in -MaxCoef..MaxCoef, e \in Exps, c2 \in -MaxCoef2..MaxCoef2, e2 \in Exps :
        Start(c, e, c2, e2)

InitRound == \E c \in RoundCoefs, e \in Exps : Start(c, e, 0, 0)

\* The state after a call that left machine m: the call recorded with the
\* operands as they were before it, the garbage of the call freed.
Return(m, call) ==
    /\ m.ok
    /\ \E g \in {Collect(m, IF call.ret = NoDecimal THEN <<d, d2>> ELSE <<d, d2, call.ret>>)} :
        /\ ints' = g.ints
        /\ decs' = g.decs
        /\ last' = [call EXCEPT !.before = <<View(Machine, d), View(Machine, d2)>>,
                                !.ret = IF call.ret = NoDecimal THEN NoDecimal ELSE g.at[3]]
    /\ UNCHANGED <<d, d2, from>>

\* No call is in progress; a panic of the package has aborted the program.
Idle == last.op = "none"

CallAdd ==
    /\ Idle
    /\ \E x \in {d, d2}, y \in {d, d2} :
        \E res \in {Add(Machine, x, y)} :
            Return(res.m, [NoCall EXCEPT !.op = "Add", !.recv = x, !.arg = y, !.ret = res.r])

CallSub ==
    /\ Idle
    /\ \E x \in {d, d2}, y \in {d, d2} :
        \E res \in {Sub(Machine, x, y)} :
            Return(res.m, [NoCall EXCEPT !.op = "Sub", !.recv = x, !.arg = y, !.ret = res.r])

CallMul ==
    /\ Idle
    /\ \E x \in {d, d2}, y \in {d, d2} :
        \E res \in {Mul(Machine, x, y)} :
            Return(res.m, [NoCall EXCEPT !.op = "Mul", !.recv = x, !.arg = y, !.ret = res.r,
                                         !.panicked = res.panicked])

CallAbs ==
    /\ Idle
    /\ \E res \in {Abs(Machine, d)} :
        Return(res.m, [NoCall EXCEPT !.op = "Abs", !.recv = d, !.ret = res.r])

CallCmp ==
    /\ Idle
    /\ \E x \in {d, d2}, y \in {d, d2} :
        \E res \in {Cmp(Machine, x, y)} :
            Return(res.m, [NoCall EXCEPT !.op = "Cmp", !.recv = x, !.arg = y, !.cmp = res.r])

CallRound ==
    /\ Idle
    /\ \E p \in Places :
        \E res \in {Round(Machine, d, p)} :
            Return(res.m, [NoCall EXCEPT !.op = "Round", !.recv = d, !.places = p,
                                         !.ret = res.r])

CallRoundBank ==
    /\ Idle
    /\ \E p \in Places :
        \E res \in {RoundBank(Machine, d, p)} :
            Return(res.m, [NoCall EXCEPT !.op = "RoundBank", !.recv = d, !.places = p,
                                         !.ret = res.r])

CallStringFixedBank ==
    /\ Idle
    /\ \E p \in Places, w \in IntSizes :
        \E res \in {StringFixedBank(Machine, d, p, w)} :
            Return(res.m, [NoCall EXCEPT !.op = "StringFixedBank", !.recv = d, !.places = p,
                                         !.str = res.r, !.panicked = res.panicked])

\* The caller drops what the call returned.
Drop ==
    /\ ~Idle
    /\ ~last.panicked
    /\ \E g \in {Collect(Machine, <<d, d2>>)} :
        /\ ints' = g.ints
        /\ decs' = g.decs
    /\ last' = NoCall
    /\ UNCHANGED <<d, d2, from>>

\* d = the Decimal the call returned, when it is one of the model's inputs.
Keep ==
    /\ last.ret # NoDecimal
    /\ LET v == View(Machine, last.ret)
       IN  /\ v.coef.inf = 0
           /\ AbsInt(v.coef.n) <= MaxCoef
           /\ v.exp \in Exps
    /\ \E g \in {Collect(Machine, <<last.ret, d2>>)} :
        /\ ints' = g.ints
        /\ decs' = g.decs
        /\ d' = g.at[1]
        /\ d2' = g.at[2]
    /\ from' = IF last.op = "Round" THEN [op |-> "Round", places |-> last.places]
                ELSE NotRounded
    /\ last' = NoCall

Next ==
    \/ CallAdd
    \/ CallSub
    \/ CallMul
    \/ CallAbs
    \/ CallCmp
    \/ CallRound
    \/ CallRoundBank
    \/ CallStringFixedBank
    \/ Drop
    \/ Keep

Spec == Init /\ [][Next]_vars

SpecRound == InitRound /\ [][Next]_vars

(***************************************************************************)
(* What the properties speak of: the call in progress, its operands as they    *)
(* were passed, and the Decimal it returned.                               *)
(***************************************************************************)
Called(op) == last.op = op /\ ~last.panicked

Recv == last.before[last.recv]
Arg == last.before[last.arg]
Ret == View(Machine, last.ret)

\* 10^|x - y| and c * 10^|x - y|, as big.Int values.
TenTo(x, y) == ExpV(Exact(10), AbsDiff(x, y))
Scaled(c, x, y) == MulV(c, TenTo(x, y))
TenToThe(k) == ExpV(Exact(10), k)

\* The Decimal a call returned, as res.
Returned(res) == View(res.m, res.r)

\* n.Round(places) and n.RoundBank(places) for a Decimal n = New(c, e) of its own.
RoundNew(n, places) == Returned(Round(n.m, n.r, places))
RoundOf(c, e, places) == RoundNew(New(InitHeap, c, e), places)
RoundBankNew(n, places) == Returned(RoundBank(n.m, n.r, places))
RoundBankOf(c, e, places) == RoundBankNew(New(InitHeap, c, e), places)

\* The integer nearest to c * 10^(e + places), a tie going away from zero.
\* -(e + places) is shift when e + places < 0.
NearestAt(c, shift) ==
    IF TenToThe(shift).inf # 0 THEN Exact(0)
    ELSE Exact(SgnInt(c) * ((2 * AbsInt(c) + TenToThe(shift).n) \div (2 * TenToThe(shift).n)))

HalfAway(c, e, places) ==
    IF places = MinInt32 THEN NearestAt(c, AddV(AbsDiff(MaxInt32, e), Exact(1)))
    ELSE IF e >= -places THEN Scaled(Exact(c), e, -places)
    ELSE NearestAt(c, AbsDiff(e, -places))

\* C1: Round(v, p) returns the integer nearest to c * 10^(e + p), a tie going to
\* the neighbour of larger magnitude, and Round((-c, e), p) returns its negation.
C1_RoundHalfAway ==
    Called("Round") =>
        /\ Ret.coef = HalfAway(Recv.coef.n, Recv.exp, last.places)
        /\ RoundOf(-Recv.coef.n, Recv.exp, last.places).coef = NegV(Ret.coef)

\* -5.01 to the tens: two digits are cut by the truncation, and the result is -10.
C1_Witness ==
    /\ Called("Round")
    /\ Recv.coef.n = -501 /\ Recv.exp = -2 /\ last.places = -1
    /\ Ret.coef.n = -1 /\ Ret.exp = 1

\* The distance |v - r| of two Decimals, and 5 * 10^half, as coefficients at exponent lo.
Distance(v, r, lo) ==
    AbsV(SubV(Scaled(v.coef, v.exp, lo), Scaled(r.coef, r.exp, lo)))
OnBoundary(v, r, half, lo) ==
    CmpV(Distance(v, r, lo), Scaled(Exact(5), half, lo)) = 0

\* v lies on a rounding boundary: |v - r| = 5 * 10^(-places-1) for r = Round(v, places).
\* -places-1 is the int32 Dec32(Neg32(places)) for every places: at the least int32
\* the two wraps cancel.
Tie(v, r, places) ==
    OnBoundary(v, r, Dec32(Neg32(places)),
               min(min(v.exp, r.exp), Dec32(Neg32(places))))

\* Of the neighbours rc and rc - sgn(rc) of a tie, the even one.
EvenNeighbour(rc) ==
    IF rc.inf # 0 \/ rc.n % 2 = 0 THEN rc ELSE Exact(rc.n - SgnInt(rc.n))

BankExpected(v, r, places) ==
    [exp |-> r.exp, coef |-> IF Tie(v, r, places) THEN EvenNeighbour(r.coef) ELSE r.coef]

\* C2: RoundBank(v, p) returns the even neighbouring multiple of 10^-p when
\* |v - Round(v, p)| is exactly 5 * 10^(-p-1), and in every other case the
\* coefficient and exponent of Round(v, p).
C2_RoundBankHalfEven ==
    Called("RoundBank") =>
        /\ Ret.exp = BankExpected(Recv, RoundOf(Recv.coef.n, Recv.exp, last.places),
                                  last.places).exp
        /\ Ret.coef = BankExpected(Recv, RoundOf(Recv.coef.n, Recv.exp, last.places),
                                   last.places).coef

\* 10.05 at one place is a tie between 10.0 and 10.1, and goes to 10.0.
C2_Witness ==
    /\ Called("RoundBank")
    /\ Recv.coef.n = 1005 /\ Recv.exp = -2 /\ last.places = 1
    /\ Ret.coef.n = 100 /\ Ret.exp = -1

\* C7: Round(Round(v, p), p) has the coefficient and exponent of Round(v, p).
C7_RoundIdempotent ==
    (Called("Round") /\ from.op = "Round" /\ from.places = last.places) =>
        (Ret.coef = Recv.coef /\ Ret.exp = Recv.exp)

\* C10: Round(v, p) and RoundBank(v, p) return a Decimal whose exponent is -p,
\* for every int32 p: exponent + p = 0 as an int64 sum.
C10_ExponentIsMinusPlaces ==
    (Called("Round") \/ Called("RoundBank")) =>
        Int64Sum(Ret.exp, last.places) = [q |-> 0, r |-> 0]

\* x + y leaves the int32 range.
Overflows(x, y) ==
    \/ x > 0 /\ y > MaxInt32 - x
    \/ x < 0 /\ y < MinInt32 - x

\* C3: Mul(a, b) panics and returns nothing exactly when a.exp + b.exp lies outside
\* the int32 range; otherwise the result has exponent a.exp + b.exp and
\* coefficient a.value * b.value.
C3_MulFailsFast ==
    last.op = "Mul" =>
        /\ last.panicked <=> Overflows(Recv.exp, Arg.exp)
        /\ last.panicked => last.ret = NoDecimal
        /\ ~last.panicked =>
            /\ last.ret # NoDecimal
            /\ Ret.exp = Recv.exp + Arg.exp
            /\ Ret.coef = Exact(Recv.coef.n * Arg.coef.n)

\* The exponent sum 2^31, one above the int32 range, panics.
C3_Witness ==
    /\ last.op = "Mul" /\ last.panicked
    /\ Recv.exp = MaxInt32 /\ Arg.exp = 1

Least(x, y) == IF x <= y THEN x ELSE y

\* C4: Add(a, b) and Sub(a, b) have exponent min(e1, e2) and the coefficient
\* c1 * 10^(e1 - min) + c2 * 10^(e2 - min), respectively their difference.
C4_AddSubExact ==
    /\ Called("Add") =>
        /\ Ret.exp = Least(Recv.exp, Arg.exp)
        /\ Ret.coef = AddV(Scaled(Recv.coef, Recv.exp, Least(Recv.exp, Arg.exp)),
                           Scaled(Arg.coef, Arg.exp, Least(Recv.exp, Arg.exp)))
    /\ Called("Sub") =>
        /\ Ret.exp = Least(Recv.exp, Arg.exp)
        /\ Ret.coef = SubV(Scaled(Recv.coef, Recv.exp, Least(Recv.exp, Arg.exp)),
                           Scaled(Arg.coef, Arg.exp, Least(Recv.exp, Arg.exp)))

\* 70 - 0.01 = 69.99: the operand of the larger exponent is scaled up by 1000.
C4_Witness ==
    /\ Called("Sub")
    /\ Recv.coef.n = 7 /\ Recv.exp = 1 /\ Arg.coef.n = 1 /\ Arg.exp = -2
    /\ Ret.coef.n = 6999 /\ Ret.exp = -2

\* C5: Cmp(a, b) is the sign of c1 * 10^e1 - c2 * 10^e2, and Cmp(b, a) = -Cmp(a, b).
C5_CmpByValue ==
    Called("Cmp") =>
        /\ last.cmp = CmpV(Scaled(Recv.coef, Recv.exp, Least(Recv.exp, Arg.exp)),
                           Scaled(Arg.coef, Arg.exp, Least(Recv.exp, Arg.exp)))
        /\ Cmp(Machine, last.arg, last.recv).r = -last.cmp

\* (10, -1) and (1, 0) are the number 1 both, and compare equal.
C5_Witness ==
    /\ Called("Cmp")
    /\ Recv.coef.n = 10 /\ Recv.exp = -1 /\ Arg.coef.n = 1 /\ Arg.exp = 0
    /\ last.cmp = 0

\* C6: after any sequence of calls the operands have the coefficient and exponent
\* they had before the call, a returned Decimal and its coefficient storage are
\* no operand's nor a package-level big.Int, and zeroInt, oneInt, fiveInt and
\* tenInt hold 0, 1, 5 and 10.
C6_OperandsUntouched ==
    /\ ints[zeroInt] = Exact(0) /\ ints[oneInt] = Exact(1)
    /\ ints[fiveInt] = Exact(5) /\ ints[tenInt] = Exact(10)
    /\ ~Idle =>
        /\ View(Machine, d) = last.before[1]
        /\ View(Machine, d2) = last.before[2]
        /\ last.ret # NoDecimal =>
            /\ last.ret \notin {d, d2}
            /\ Ret.value \notin Globals \cup {decs[d].value, decs[d2].value}

\* RoundBank has taken 0.5 to 1 and then, in place, to 0; the receiver is still 0.5.
C6_Witness ==
    /\ Called("RoundBank")
    /\ last.before[1].coef.n = 5 /\ last.before[1].exp = -1 /\ last.places = 0
    /\ Ret.coef.n = 0 /\ Ret.exp = 0
    /\ View(Machine, d).coef.n = 5

\* C8: the string of StringFixedBank(v, p) starts with "-" if and only if the
\* coefficient of RoundBank(v, p) is below zero.
C8_NoMinusZero ==
    Called("StringFixedBank") =>
        /\ last.str # <<>>
        /\ last.str[1].ch = "-" <=>
               SignV(RoundBankOf(Recv.coef.n, Recv.exp, last.places).coef) < 0

\* -0.01 at one place rounds to a zero coefficient and renders as "0.0".
C8_Witness ==
    /\ Called("StringFixedBank")
    /\ Recv.coef.n = -1 /\ Recv.exp = -2 /\ last.places = 1
    /\ last.str = Chars(<<"0", ".", "0">>)

\* acc plus the number of characters of the runs s.
RECURSIVE RunsPlus(_, _)
RunsPlus(s, acc) == IF s = <<>> THEN acc ELSE RunsPlus(Tail(s), acc + Head(s).n)

\* s without its leading "0" runs.
RECURSIVE Significant(_)
Significant(s) == IF s # <<>> /\ Head(s).ch = "0" THEN Significant(Tail(s)) ELSE s

Unsigned(str) == IF str # <<>> /\ Head(str).ch = "-" THEN Tail(str) ELSE str

\* body is intPart "." fractionalPart for (c, e), e < 0, split at its run i.
SplitAt(body, i, c, e) ==
    /\ body[i].ch = "."
    /\ RunsPlus(SubSeq(body, i + 1, Len(body)), e) = 0
    /\ SubSeq(body, 1, i - 1) =
           IF Len(Digits(AbsInt(c))) + e <= 0 THEN Chars(<<"0">>)
           ELSE Chars(SubSeq(Digits(AbsInt(c)), 1, Len(Digits(AbsInt(c))) + e))
    /\ Significant(SubSeq(body, 1, i - 1) \o SubSeq(body, i + 1, Len(body))) =
           IF c = 0 THEN <<>> ELSE Chars(Digits(AbsInt(c)))

\* The rendering of rounded = (c, e) with e < 0: an integer part, ".", and -e
\* fractional digits that read back as |c| * 10^e.
PointPlaced(str, rounded) ==
    rounded.exp < 0 =>
        \E i \in 1..Len(Unsigned(str)) :
            SplitAt(Unsigned(str), i, rounded.coef.n, rounded.exp)

\* Exactly places fractional digits when places > 0, and no "." otherwise.
FractionDigits(str, places) ==
    IF places > 0
    THEN \E i \in 1..Len(str) :
            /\ str[i].ch = "."
            /\ RunsPlus(SubSeq(str, i + 1, Len(str)), -places) = 0
    ELSE \A i \in 1..Len(str) : str[i].ch # "."

\* C9: a Decimal (c, e) with e < 0 renders as an optional "-", an integer part,
\* "." and exactly -e fractional digits reading back as |c| * 10^e; hence
\* StringFixedBank(v, p) has exactly p fractional digits when p > 0 and no
\* decimal point when p <= 0.
C9_DecimalPoint ==
    Called("StringFixedBank") =>
        /\ PointPlaced(last.str, RoundBankOf(Recv.coef.n, Recv.exp, last.places))
        /\ FractionDigits(last.str, last.places)
====
